---- MODULE Spec2Model ----
(***************************************************************************)
(* A model of the thread pool of src/main.cpp: the Queue (mutex, condition *)
(* variable, deque), the Worker loop (Worker::runKernel), the pool's        *)
(* completion barrier (notifyWorkerDone / waitUntilFinish) and the         *)
(* implicit destruction of the pool (each Worker's std::jthread requests   *)
(* stop and joins in its destructor).                                      *)
(*                                                                         *)
(* Every step of a thread that touches state another thread can see is an  *)
(* action of its own.  A mutex that stays locked from one step to the next *)
(* is recorded in qmtx / pmtx; a critical section that touches only what   *)
(* its mutex guards is one action, enabled when the mutex is free.         *)
(* The flag Worker::done is a plain bool written without any lock, so each *)
(* write and each read of it is a separate step.                           *)
(***************************************************************************)
EXTENDS Integers, Sequences, FiniteSets, TLC

\* Bounds of the model.
NumWorkers == 2
MaxTasks == 3

\* The Workers in the order of m_thread_vec; the threads that call addTask;
\* the threads that call waitUntilFinish.
Workers == 1..NumWorkers
Producers == {"p1", "p2"}
Waiters == {"u1", "u2"}

\* A task is named by its producer and its rank among that producer's tasks.
TaskIds == Producers \X (1..MaxTasks)

\* The callables a producer hands to addTask: one that returns, one that throws.
Bodies == {"ok", "throw"}

NoTask == [prod |-> "none", seq |-> 0, body |-> "none", arg |-> 0]
Id(t) == <<t.prod, t.seq>>

\* What std::bind(f, args...) holds: the callable and its argument.  The k-th
\* call of a producer binds the argument k.
NoCall == [body |-> "none", arg |-> 0]
Arg(k) == k

\* A direct call of the bound callable: main's t1 returns i + 1; the other
\* callable throws.
Invoke(b, a) ==
    IF b = "throw" THEN [kind |-> "failure", val |-> 0]
                   ELSE [kind |-> "value", val |-> a + 1]

\* What future::get() gives for a promise broken before it was satisfied,
\* and the mark of a future on which get() has not been called.
BrokenPromise == [kind |-> "broken", val |-> 0]
NotGot == [kind |-> "none", val |-> 0]

NoOne == <<"none", 0>>
WorkerThread(w) == <<"worker", w>>
WaiterThread(u) == <<"waiter", u>>

VARIABLES
    q,          \* Queue::q, the deque of pending tasks
    qmtx,       \* holder of Queue::mtx between steps
    pmtx,       \* holder of ThreadPool::mtx between steps
    pc,         \* each Worker thread's position in runKernel / Queue::pop
    cur,        \* the task a Worker holds (the optional returned by getTask)
    done,       \* Worker::done
    stop,       \* the stop state of each Worker's jthread
    submitted,  \* number of addTask calls each producer has completed
    handle,     \* the shared state of each task's future
    result,     \* the value stored in that shared state
    bound,      \* what addTask bound for each task
    got,        \* what get() on each task's future gave its caller
    popCount,   \* how many times Queue::pop has returned each task
    execCount,  \* how many times each task's body has been run
    wpc,        \* each waiter's position in waitUntilFinish
    widx,       \* the Worker the waiter's all_of is about to look at
    fresh,      \* no addTask has completed since the waiter called
    dpc,        \* position of the pool's destruction
    dcur,       \* the Worker whose destructor is running
    djoined,    \* the Workers already destroyed
    cstate      \* how far each Worker's construction has got

vars == <<q, qmtx, pmtx, pc, cur, done, stop, submitted, handle, result, bound,
          got, popCount, execCount, wpc, widx, fresh, dpc, dcur, djoined,
          cstate>>

workerVars == <<pc, cur, done>>
taskVars == <<submitted, handle, result, bound, got, popCount, execCount>>
waiterVars == <<wpc, widx, fresh>>
dtorVars == <<dpc, dcur, djoined, stop, cstate>>

----------------------------------------------------------------------------
\* Queue primitives

\* q.push_back(std::move(t))
PushFrontInstead(queue, t) == <<t>> \o queue
PushBack(queue, t) == Append(queue, t)

\* q.front()
BackInstead(queue) == queue[Len(queue)]
Front(queue) == Head(queue)

\* q.pop_front()
PopNothing(queue) == queue
PopFront(queue) == Tail(queue)

\* m_q_cv.wait(lck, st, pred) is over: the predicate holds or stop was requested
WaitEndsIgnoringStop(queue, stopReq) == queue # <<>>
WaitEndsOnAnyWake(queue, stopReq) == TRUE
WaitEnds(queue, stopReq) == queue # <<>> \/ stopReq

\* notify_one(): the sets of blocked threads it may unblock
NotifyNobody(blocked) == {{}}
NotifyOne(blocked) == IF blocked = {} THEN {{}} ELSE {{b} : b \in blocked}

\* notify_all()
NotifyAll(blocked) == blocked

QueueWaiting == {w \in Workers : pc[w] = "popWait"}
PoolWaiting == {u \in Waiters : wpc[u] = "blocked"}

\* The positions of a thread that is not inside waitUntilFinish: it never
\* calls it, has not called it yet, or has returned from it.
NotWaiting == {"absent", "idle", "returned"}

\* The outcome packaged_task stores in the future's shared state
Outcome(body) == IF body = "throw" THEN "failure" ELSE "value"

----------------------------------------------------------------------------
Init ==
    /\ q = <<>>
    /\ qmtx = NoOne
    /\ pmtx = NoOne
    /\ pc = [w \in Workers |-> "start"]
    /\ cur = [w \in Workers |-> NoTask]
    /\ done = [w \in Workers |-> FALSE]
    /\ stop = [w \in Workers |-> FALSE]
    /\ submitted = [p \in Producers |-> 0]
    /\ handle = [t \in TaskIds |-> "none"]
    /\ result = [t \in TaskIds |-> 0]
    /\ bound = [t \in TaskIds |-> NoCall]
    /\ got = [t \in TaskIds |-> NotGot]
    /\ popCount = [t \in TaskIds |-> 0]
    /\ execCount = [t \in TaskIds |-> 0]
    /\ wpc = [u \in Waiters |-> IF u = "u1" THEN "idle" ELSE "absent"]
    /\ widx = [u \in Waiters |-> 0]
    /\ fresh = [u \in Waiters |-> TRUE]
    /\ dpc = "alive"
    /\ dcur = 0
    /\ djoined = {}
    /\ cstate = [w \in Workers |-> "bound"]

----------------------------------------------------------------------------
\* Producers

\* The tasks submitted so far, and those among them whose body throws.  At
\* most MaxTasks tasks are submitted, at most one of them throwing.
Submitted == {t \in TaskIds : handle[t] # "none"}
Throwing ==
    {t \in TaskIds :
        \/ handle[t] = "failure"
        \/ \E i \in 1..Len(q) : Id(q[i]) = t /\ q[i].body = "throw"
        \/ \E w \in Workers : Id(cur[w]) = t /\ cur[w].body = "throw"}

\* ThreadPool::addTask: package the call, take the future, Queue::push.
AddTask(p, b) ==
    /\ dpc = "alive"
    /\ Cardinality(Submitted) < MaxTasks
    /\ b = "throw" => Throwing = {}
    /\ qmtx = NoOne
    /\ LET t == [prod |-> p, seq |-> submitted[p] + 1, body |-> b,
                  arg |-> Arg(submitted[p] + 1)] IN
        /\ q' = PushBack(q, t)
        /\ handle' = [handle EXCEPT ![Id(t)] = "pending"]
        /\ bound' = [bound EXCEPT ![Id(t)] = [body |-> b, arg |-> t.arg]]
        /\ submitted' = [submitted EXCEPT ![p] = @ + 1]
    /\ \E woken \in NotifyOne(QueueWaiting) :
        pc' = [w \in Workers |-> IF w \in woken THEN "popWake" ELSE pc[w]]
    /\ fresh' = [u \in Waiters |-> fresh[u] /\ wpc[u] \in NotWaiting]
    /\ UNCHANGED <<qmtx, pmtx, cur, done, popCount, execCount, result, got>>
    /\ UNCHANGED <<wpc, widx, dtorVars>>

----------------------------------------------------------------------------
\* Workers

\* runKernel line 119 calls getTask through m_threadpool, which must be bound.
\* Queue::pop, lines 35-36: lock the mutex and wait.  Either the wait is over
\* at once (the mutex stays locked) or the thread blocks, releasing the mutex.
PopEnter(w) ==
    /\ pc[w] \in {"start", "popWake"}
    /\ cstate[w] = "bound"
    /\ qmtx = NoOne
    /\ IF WaitEnds(q, stop[w])
         THEN /\ pc' = [pc EXCEPT ![w] = "popCheck"]
              /\ qmtx' = WorkerThread(w)
         ELSE /\ pc' = [pc EXCEPT ![w] = "popWait"]
              /\ qmtx' = qmtx
    /\ UNCHANGED <<q, pmtx, cur, done>>
    /\ UNCHANGED <<taskVars, waiterVars, dtorVars>>

\* A condition variable may unblock a thread without a notification.
SpuriousWake(w) ==
    /\ pc[w] = "popWait"
    /\ pc' = [pc EXCEPT ![w] = "popWake"]
    /\ UNCHANGED <<q, qmtx, pmtx, cur, done>>
    /\ UNCHANGED <<taskVars, waiterVars, dtorVars>>

\* A variant in which the lock taken by pop is still held when pop has
\* returned, so that the task runs under Queue::mtx.
PopCheckKeepingLock(w) ==
    /\ pc[w] = "popCheck"
    /\ qmtx = WorkerThread(w)
    /\ qmtx' = qmtx
    /\ IF stop[w]
         THEN /\ pc' = [pc EXCEPT ![w] = "exitLoop"]
              /\ UNCHANGED <<q, cur, popCount>>
         ELSE IF q = <<>>
         THEN /\ pc' = [pc EXCEPT ![w] = "ub"]
              /\ UNCHANGED <<q, cur, popCount>>
         ELSE /\ cur' = [cur EXCEPT ![w] = Front(q)]
              /\ q' = PopFront(q)
              /\ popCount' = [popCount EXCEPT ![Id(Front(q))] = @ + 1]
              /\ pc' = [pc EXCEPT ![w] = "gotTask"]
    /\ UNCHANGED <<pmtx, done, submitted, handle, execCount, result, bound, got>>
    /\ UNCHANGED <<waiterVars, dtorVars>>

\* A variant in which pop takes ThreadPool::mtx before it gives up Queue::mtx.
PopCheckUnderPoolMutex(w) ==
    /\ pc[w] = "popCheck"
    /\ qmtx = WorkerThread(w)
    /\ pmtx = NoOne
    /\ qmtx' = NoOne
    /\ IF stop[w]
         THEN /\ pc' = [pc EXCEPT ![w] = "exitLoop"]
              /\ UNCHANGED <<q, cur, popCount>>
         ELSE IF q = <<>>
         THEN /\ pc' = [pc EXCEPT ![w] = "ub"]
              /\ UNCHANGED <<q, cur, popCount>>
         ELSE /\ cur' = [cur EXCEPT ![w] = Front(q)]
              /\ q' = PopFront(q)
              /\ popCount' = [popCount EXCEPT ![Id(Front(q))] = @ + 1]
              /\ pc' = [pc EXCEPT ![w] = "gotTask"]
    /\ UNCHANGED <<pmtx, done, submitted, handle, execCount, result, bound, got>>
    /\ UNCHANGED <<waiterVars, dtorVars>>

\* Queue::pop, lines 37-43, and the loop condition of runKernel, line 119.
\* q.front() on an empty deque is undefined behaviour: position "ub".
PopCheck(w) ==
    /\ pc[w] = "popCheck"
    /\ qmtx = WorkerThread(w)
    /\ qmtx' = NoOne
    /\ IF stop[w]
         THEN /\ pc' = [pc EXCEPT ![w] = "exitLoop"]
              /\ UNCHANGED <<q, cur, popCount>>
         ELSE IF q = <<>>
         THEN /\ pc' = [pc EXCEPT ![w] = "ub"]
              /\ UNCHANGED <<q, cur, popCount>>
         ELSE /\ cur' = [cur EXCEPT ![w] = Front(q)]
              /\ q' = PopFront(q)
              /\ popCount' = [popCount EXCEPT ![Id(Front(q))] = @ + 1]
              /\ pc' = [pc EXCEPT ![w] = "gotTask"]
    /\ UNCHANGED <<pmtx, done, submitted, handle, execCount, result, bound, got>>
    /\ UNCHANGED <<waiterVars, dtorVars>>

\* runKernel line 120: done = false
SetBusy(w) ==
    /\ pc[w] = "gotTask"
    /\ done' = [done EXCEPT ![w] = FALSE]
    /\ pc' = [pc EXCEPT ![w] = "exec"]
    /\ UNCHANGED <<q, qmtx, pmtx, cur>>
    /\ UNCHANGED <<taskVars, waiterVars, dtorVars>>

\* A variant that calls the callable without the bound argument.
FinishUnbound(w) ==
    /\ handle' = [handle EXCEPT ![Id(cur[w])] =
                    IF @ = "pending" THEN Outcome(cur[w].body) ELSE @]
    /\ result' = [result EXCEPT ![Id(cur[w])] =
                    IF handle[Id(cur[w])] = "pending"
                      THEN Invoke(cur[w].body, 0).val ELSE @]
    /\ execCount' = [execCount EXCEPT ![Id(cur[w])] = @ + 1]
    /\ cur' = [cur EXCEPT ![w] = NoTask]
    /\ pc' = [pc EXCEPT ![w] = "setDone"]

\* The task body run to its end, whatever it does: the outcome is stored in
\* the future's shared state and the optional no longer holds unfinished work.
Finish(w) ==
    /\ handle' = [handle EXCEPT ![Id(cur[w])] =
                    IF @ = "pending" THEN Outcome(cur[w].body) ELSE @]
    /\ result' = [result EXCEPT ![Id(cur[w])] =
                    IF handle[Id(cur[w])] = "pending"
                      THEN Invoke(cur[w].body, cur[w].arg).val ELSE @]
    /\ execCount' = [execCount EXCEPT ![Id(cur[w])] = @ + 1]
    /\ cur' = [cur EXCEPT ![w] = NoTask]
    /\ pc' = [pc EXCEPT ![w] = "setDone"]

\* A variant in which a failure raised by the body leaves the task uncaught
\* and ends the thread.
ExecUncaught(w) ==
    /\ pc[w] = "exec"
    /\ IF cur[w].body = "throw"
         THEN /\ pc' = [pc EXCEPT ![w] = "terminated"]
              /\ UNCHANGED <<cur, handle, execCount, result>>
         ELSE Finish(w)
    /\ UNCHANGED <<q, qmtx, pmtx, done, submitted, popCount, bound, got>>
    /\ UNCHANGED <<waiterVars, dtorVars>>

\* A variant in which a stop request abandons the task the Worker holds.
ExecCancellable(w) ==
    /\ pc[w] = "exec"
    /\ IF stop[w]
         THEN /\ pc' = [pc EXCEPT ![w] = "exitLoop"]
              /\ UNCHANGED <<cur, handle, execCount, result>>
         ELSE Finish(w)
    /\ UNCHANGED <<q, qmtx, pmtx, done, submitted, popCount, bound, got>>
    /\ UNCHANGED <<waiterVars, dtorVars>>

\* runKernel line 121: (*task)(), that is pt() of the packaged_task made by
\* addTask (lines 82-86), which catches what the callable throws.
Exec(w) ==
    /\ pc[w] = "exec"
    /\ Finish(w)
    /\ UNCHANGED <<q, qmtx, pmtx, done, submitted, popCount, bound, got>>
    /\ UNCHANGED <<waiterVars, dtorVars>>

\* A variant that goes on to the notification without having set the flag.
SetDoneDeferred(w) ==
    /\ pc[w] = "setDone"
    /\ done' = done
    /\ pc' = [pc EXCEPT ![w] = "notify"]
    /\ UNCHANGED <<q, qmtx, pmtx, cur>>
    /\ UNCHANGED <<taskVars, waiterVars, dtorVars>>

\* runKernel line 122: done = true
SetDone(w) ==
    /\ pc[w] = "setDone"
    /\ done' = [done EXCEPT ![w] = TRUE]
    /\ pc' = [pc EXCEPT ![w] = "notify"]
    /\ UNCHANGED <<q, qmtx, pmtx, cur>>
    /\ UNCHANGED <<taskVars, waiterVars, dtorVars>>

\* ThreadPool::notifyWorkerDone: lock mtx, m_allDone_cv.notify_one(), unlock.
NotifyWorkerDone(w, from, to) ==
    /\ pc[w] = from
    /\ pmtx = NoOne
    /\ pc' = [pc EXCEPT ![w] = to]
    /\ \E woken \in NotifyOne(PoolWaiting) :
        wpc' = [u \in Waiters |-> IF u \in woken THEN "woken" ELSE wpc[u]]
    /\ UNCHANGED <<q, qmtx, pmtx, cur, done, widx, fresh>>
    /\ UNCHANGED <<taskVars, dtorVars>>

\* runKernel line 123
Notify(w) == NotifyWorkerDone(w, "notify", "start")

\* runKernel line 125: done = true after the loop
ExitFlag(w) ==
    /\ pc[w] = "exitLoop"
    /\ done' = [done EXCEPT ![w] = TRUE]
    /\ pc' = [pc EXCEPT ![w] = "exitNotify"]
    /\ UNCHANGED <<q, qmtx, pmtx, cur>>
    /\ UNCHANGED <<taskVars, waiterVars, dtorVars>>

\* runKernel line 126, after which the thread function returns
ExitNotify(w) == NotifyWorkerDone(w, "exitNotify", "exited")

WorkerStep(w) ==
    \/ PopEnter(w)
    \/ PopCheck(w)
    \/ SetBusy(w)
    \/ Exec(w)
    \/ SetDone(w)
    \/ Notify(w)
    \/ ExitFlag(w)
    \/ ExitNotify(w)

----------------------------------------------------------------------------
\* Waiters: ThreadPool::waitUntilFinish

\* line 101: lock mtx; the wait begins by evaluating the predicate
WaitBegin(u) ==
    /\ dpc = "alive"
    /\ wpc[u] = "idle"
    /\ pmtx = NoOne
    /\ pmtx' = WaiterThread(u)
    /\ wpc' = [wpc EXCEPT ![u] = "evalEmpty"]
    /\ fresh' = [fresh EXCEPT ![u] = TRUE]
    /\ UNCHANGED <<q, qmtx, widx>>
    /\ UNCHANGED <<workerVars, taskVars, dtorVars>>

\* line 103, q.isEmpty(): under Queue::mtx.  A false predicate blocks the
\* waiter on m_allDone_cv, releasing mtx.
EvalEmpty(u) ==
    /\ wpc[u] = "evalEmpty"
    /\ pmtx = WaiterThread(u)
    /\ qmtx = NoOne
    /\ IF q = <<>>
         THEN /\ wpc' = [wpc EXCEPT ![u] = "evalDone"]
              /\ widx' = [widx EXCEPT ![u] = 1]
              /\ pmtx' = pmtx
         ELSE /\ wpc' = [wpc EXCEPT ![u] = "blocked"]
              /\ widx' = [widx EXCEPT ![u] = 0]
              /\ pmtx' = NoOne
    /\ UNCHANGED <<q, qmtx, fresh>>
    /\ UNCHANGED <<workerVars, taskVars, dtorVars>>

\* lines 103-105, std::all_of: one Worker's isDone() per step, in vector
\* order, stopping at the first false.  A true predicate returns (line 107).
EvalDone(u) ==
    /\ wpc[u] = "evalDone"
    /\ pmtx = WaiterThread(u)
    /\ IF ~done[widx[u]]
         THEN /\ wpc' = [wpc EXCEPT ![u] = "blocked"]
              /\ widx' = [widx EXCEPT ![u] = 0]
              /\ pmtx' = NoOne
         ELSE IF widx[u] < NumWorkers
         THEN /\ widx' = [widx EXCEPT ![u] = @ + 1]
              /\ UNCHANGED <<wpc, pmtx>>
         ELSE /\ wpc' = [wpc EXCEPT ![u] = "returned"]
              /\ widx' = [widx EXCEPT ![u] = 0]
              /\ pmtx' = NoOne
    /\ UNCHANGED <<q, qmtx, fresh>>
    /\ UNCHANGED <<workerVars, taskVars, dtorVars>>

\* A condition variable may unblock a thread without a notification.
WaiterSpuriousWake(u) ==
    /\ wpc[u] = "blocked"
    /\ wpc' = [wpc EXCEPT ![u] = "woken"]
    /\ UNCHANGED <<q, qmtx, pmtx, widx, fresh>>
    /\ UNCHANGED <<workerVars, taskVars, dtorVars>>

\* The unblocked waiter locks mtx again and evaluates the predicate again.
Rewake(u) ==
    /\ wpc[u] = "woken"
    /\ pmtx = NoOne
    /\ pmtx' = WaiterThread(u)
    /\ wpc' = [wpc EXCEPT ![u] = "evalEmpty"]
    /\ UNCHANGED <<q, qmtx, widx, fresh>>
    /\ UNCHANGED <<workerVars, taskVars, dtorVars>>

WaiterStep(u) ==
    \/ EvalEmpty(u)
    \/ EvalDone(u)
    \/ Rewake(u)

----------------------------------------------------------------------------
\* Destruction of the pool.  ThreadPool and Worker declare no destructor: the
\* members go in reverse order of declaration, m_thread_vec first, and each
\* Worker's std::jthread member requests stop and then joins.

\* No other thread is inside a member function of the pool when it dies.
DtorStart ==
    /\ dpc = "alive"
    /\ \A u \in Waiters : wpc[u] \in NotWaiting
    /\ dpc' = "pick"
    /\ UNCHANGED <<q, qmtx, pmtx, dcur, djoined, stop, cstate>>
    /\ UNCHANGED <<workerVars, taskVars, waiterVars>>

\* The order in which std::vector destroys its elements is the library's.
DestroyNext(joined) == Workers \ joined

\* ~jthread, first half: request_stop().  A Worker inside the stoppable wait
\* has a stop callback registered, which does notify_all on m_q_cv.
DtorRequestStop(w) ==
    /\ dpc = "pick"
    /\ w \in DestroyNext(djoined)
    /\ stop' = [stop EXCEPT ![w] = TRUE]
    /\ dcur' = w
    /\ dpc' = "join"
    /\ LET woken == IF pc[w] \in {"popWait", "popWake"}
                      THEN NotifyAll(QueueWaiting) ELSE {}
       IN pc' = [x \in Workers |-> IF x \in woken THEN "popWake" ELSE pc[x]]
    /\ UNCHANGED <<q, qmtx, pmtx, cur, done, djoined, cstate>>
    /\ UNCHANGED <<taskVars, waiterVars>>

\* ~jthread, second half: join() returns once the thread function has returned.
DtorJoin ==
    /\ dpc = "join"
    /\ pc[dcur] = "exited"
    /\ djoined' = djoined \cup {dcur}
    /\ dcur' = 0
    /\ dpc' = IF djoined' = Workers THEN "members" ELSE "pick"
    /\ UNCHANGED <<q, qmtx, pmtx, stop, cstate>>
    /\ UNCHANGED <<workerVars, taskVars, waiterVars>>

\* A variant in which the tasks still queued go away without a word to
\* their futures.
DtorMembersSilent ==
    /\ dpc = "members"
    /\ handle' = handle
    /\ q' = <<>>
    /\ dpc' = "destroyed"
    /\ UNCHANGED <<qmtx, pmtx, dcur, djoined, stop, submitted, popCount, execCount>>
    /\ UNCHANGED <<result, bound, got, cstate>>
    /\ UNCHANGED <<workerVars, waiterVars>>

\* The remaining members: the Queue's deque dies with the tasks still in it,
\* and a packaged_task destroyed before it ran breaks its promise.
DtorMembers ==
    /\ dpc = "members"
    /\ handle' = [t \in TaskIds |->
                    IF \E i \in 1..Len(q) : Id(q[i]) = t /\ handle[t] = "pending"
                      THEN "broken" ELSE handle[t]]
    /\ q' = <<>>
    /\ dpc' = "destroyed"
    /\ UNCHANGED <<qmtx, pmtx, dcur, djoined, stop, submitted, popCount, execCount>>
    /\ UNCHANGED <<result, bound, got, cstate>>
    /\ UNCHANGED <<workerVars, waiterVars>>

DtorStep ==
    \/ \E w \in Workers : DtorRequestStop(w)
    \/ DtorJoin
    \/ DtorMembers

----------------------------------------------------------------------------
\* Construction.  ThreadPool::ThreadPool builds the Workers one after another
\* (line 75).  Worker's members are initialised in the order of their
\* declaration (lines 25-27): done, then m_thread, whose initialiser starts the
\* thread, then m_threadpool.
CtorInit ==
    /\ q = <<>>
    /\ qmtx = NoOne
    /\ pmtx = NoOne
    /\ pc = [w \in Workers |-> "unborn"]
    /\ cur = [w \in Workers |-> NoTask]
    /\ done = [w \in Workers |-> FALSE]
    /\ stop = [w \in Workers |-> FALSE]
    /\ submitted = [p \in Producers |-> 0]
    /\ handle = [t \in TaskIds |-> "none"]
    /\ result = [t \in TaskIds |-> 0]
    /\ bound = [t \in TaskIds |-> NoCall]
    /\ got = [t \in TaskIds |-> NotGot]
    /\ popCount = [t \in TaskIds |-> 0]
    /\ execCount = [t \in TaskIds |-> 0]
    /\ wpc = [u \in Waiters |-> IF u = "u1" THEN "idle" ELSE "absent"]
    /\ widx = [u \in Waiters |-> 0]
    /\ fresh = [u \in Waiters |-> TRUE]
    /\ dpc = "constructing"
    /\ dcur = 0
    /\ djoined = {}
    /\ cstate = [w \in Workers |-> "raw"]

\* Worker::Worker, line 17, m_thread([this]{ this->runKernel(); }): the new
\* thread may run from here on.
CtorThread(w) ==
    /\ dpc = "constructing"
    /\ cstate[w] = "raw"
    /\ \A v \in Workers : v < w => cstate[v] = "bound"
    /\ cstate' = [cstate EXCEPT ![w] = "started"]
    /\ pc' = [pc EXCEPT ![w] = "entry"]
    /\ UNCHANGED <<q, qmtx, pmtx, cur, done, dpc, dcur, djoined, stop>>
    /\ UNCHANGED <<taskVars, waiterVars>>

\* Worker::Worker, line 17, m_threadpool(tp): the reference is bound.
CtorBind(w) ==
    /\ dpc = "constructing"
    /\ cstate[w] = "started"
    /\ cstate' = [cstate EXCEPT ![w] = "bound"]
    /\ UNCHANGED <<q, qmtx, pmtx, dpc, dcur, djoined, stop>>
    /\ UNCHANGED <<workerVars, taskVars, waiterVars>>

\* ThreadPool::ThreadPool returns, line 77: the pool can be used.
CtorReturn ==
    /\ dpc = "constructing"
    /\ \A w \in Workers : cstate[w] = "bound"
    /\ dpc' = "alive"
    /\ UNCHANGED <<q, qmtx, pmtx, dcur, djoined, stop, cstate>>
    /\ UNCHANGED <<workerVars, taskVars, waiterVars>>

CtorStep ==
    \/ \E w \in Workers : CtorThread(w)
    \/ \E w \in Workers : CtorBind(w)
    \/ CtorReturn

\* runKernel line 118: m_thread.get_stop_token().  The stop state of a jthread
\* exists before its thread is started, so the token is the right one even
\* when the read precedes the end of the jthread's constructor.
GetStopToken(w) ==
    /\ pc[w] = "entry"
    /\ pc' = [pc EXCEPT ![w] = "start"]
    /\ UNCHANGED <<q, qmtx, pmtx, cur, done>>
    /\ UNCHANGED <<taskVars, waiterVars, dtorVars>>

\* runKernel line 119 reached before m_threadpool is bound: the call goes
\* through an uninitialised reference, which is undefined behaviour:
\* position "wild", from which nothing is known.
UnboundCall(w) ==
    /\ pc[w] = "start"
    /\ cstate[w] # "bound"
    /\ pc' = [pc EXCEPT ![w] = "wild"]
    /\ UNCHANGED <<q, qmtx, pmtx, cur, done>>
    /\ UNCHANGED <<taskVars, waiterVars, dtorVars>>

----------------------------------------------------------------------------
\* The holder of a future: std::future::get() (main, line 151).  It blocks
\* while the shared state is not ready, then gives the stored value or
\* rethrows the stored exception, and leaves the future invalid.
Stored(t) ==
    IF handle[t] = "broken" THEN BrokenPromise
    ELSE [kind |-> handle[t], val |-> result[t]]

Get(t) ==
    /\ got[t] = NotGot
    /\ handle[t] \in {"value", "failure", "broken"}
    /\ got' = [got EXCEPT ![t] = Stored(t)]
    /\ UNCHANGED <<q, qmtx, pmtx, submitted, handle, result, bound, popCount,
                   execCount>>
    /\ UNCHANGED <<workerVars, waiterVars, dtorVars>>

----------------------------------------------------------------------------
Next ==
    \/ \E p \in Producers, b \in Bodies : AddTask(p, b)
    \/ \E w \in Workers : WorkerStep(w)
    \/ \E w \in Workers : SpuriousWake(w)
    \/ \E u \in Waiters : WaitBegin(u)
    \/ \E u \in Waiters : WaiterStep(u)
    \/ \E u \in Waiters : WaiterSpuriousWake(u)
    \/ DtorStart
    \/ DtorStep

Spec == Init /\ [][Next]_vars

\* Fair scheduling: a thread that can take a step takes one, and a thread
\* that needs a mutex which is free again and again gets it (strong fairness
\* for the threads that lock).  Nothing obliges a caller to submit, to wait or
\* to destroy the pool, nor a condition variable to wake without a
\* notification.
Fairness ==
    /\ \A w \in Workers : SF_vars(WorkerStep(w))
    /\ \A u \in Waiters : SF_vars(WaiterStep(u))
    /\ WF_vars(DtorStep)

FairSpec == Spec /\ Fairness

\* The pool together with the threads that call get() on the futures.
NextGet ==
    \/ Next
    \/ \E t \in TaskIds : Get(t)

GetSpec == Init /\ [][NextGet]_vars

\* The pool with two threads that call waitUntilFinish.
MultiInit ==
    /\ q = <<>>
    /\ qmtx = NoOne
    /\ pmtx = NoOne
    /\ pc = [w \in Workers |-> "start"]
    /\ cur = [w \in Workers |-> NoTask]
    /\ done = [w \in Workers |-> FALSE]
    /\ stop = [w \in Workers |-> FALSE]
    /\ submitted = [p \in Producers |-> 0]
    /\ handle = [t \in TaskIds |-> "none"]
    /\ result = [t \in TaskIds |-> 0]
    /\ bound = [t \in TaskIds |-> NoCall]
    /\ got = [t \in TaskIds |-> NotGot]
    /\ popCount = [t \in TaskIds |-> 0]
    /\ execCount = [t \in TaskIds |-> 0]
    /\ wpc = [u \in Waiters |-> "idle"]
    /\ widx = [u \in Waiters |-> 0]
    /\ fresh = [u \in Waiters |-> TRUE]
    /\ dpc = "alive"
    /\ dcur = 0
    /\ djoined = {}
    /\ cstate = [w \in Workers |-> "bound"]

\* The pool is not destroyed, so no Worker leaves its loop, and one producer
\* submits.
WorkerLoopStep(w) ==
    \/ PopEnter(w)
    \/ PopCheck(w)
    \/ SetBusy(w)
    \/ Exec(w)
    \/ SetDone(w)
    \/ Notify(w)

NextMulti ==
    \/ \E b \in Bodies : AddTask("p1", b)
    \/ \E w \in Workers : WorkerLoopStep(w)
    \/ \E w \in Workers : SpuriousWake(w)
    \/ \E u \in Waiters : WaitBegin(u)
    \/ \E u \in Waiters : WaiterStep(u)
    \/ \E u \in Waiters : WaiterSpuriousWake(u)

MultiSpec == MultiInit /\ [][NextMulti]_vars /\ Fairness

\* The pool from the first step of its constructor.
NextCtor ==
    \/ CtorStep
    \/ \E w \in Workers : GetStopToken(w)
    \/ \E w \in Workers : UnboundCall(w)
    \/ Next

CtorSpec == CtorInit /\ [][NextCtor]_vars

----------------------------------------------------------------------------
\* The Worker states of the design: Busy from the moment pop has removed a
\* task for the Worker until that task has finished; Stopped once the loop
\* has been left; Idle otherwise.
Busy(w) == pc[w] \in {"gotTask", "exec"}
Stopped(w) == pc[w] \in {"exitLoop", "exitNotify", "exited"}
WState(w) == IF Busy(w) THEN "Busy" ELSE IF Stopped(w) THEN "Stopped" ELSE "Idle"

TypeOK ==
    /\ pc \in [Workers -> {"start", "popWait", "popWake", "popCheck", "gotTask",
                           "exec", "setDone", "notify", "exitLoop",
                           "exitNotify", "exited", "ub", "terminated",
                           "unborn", "entry", "wild"}]
    /\ cstate \in [Workers -> {"raw", "started", "bound"}]
    /\ wpc \in [Waiters -> {"absent", "idle", "evalEmpty", "evalDone",
                            "blocked", "woken", "returned"}]
    /\ dpc \in {"constructing", "alive", "pick", "join", "members", "destroyed"}
    /\ done \in [Workers -> BOOLEAN]
    /\ stop \in [Workers -> BOOLEAN]

----------------------------------------------------------------------------
\* Steps named in the properties below
Returns(u) == wpc[u] # "returned" /\ wpc'[u] = "returned"
PopReturns(w) == pc[w] = "popCheck" /\ pc'[w] # "popCheck"
Executed(t) == execCount[t] >= 1
AllExecuted == \A t \in Submitted : Executed(t)

\* C1: waitUntilFinish never returns while the queue is non-empty or a Worker
\* is Busy (holds a task that pop removed for it and that has not finished),
\* so that every task submitted before the wait began has finished.  Stated
\* for the waits during which no producer submits: the tasks then in the queue
\* or held by a Worker were all submitted before the wait began.
C1_NoReturnWhileBusy ==
    [][\A u \in Waiters :
        (Returns(u) /\ fresh[u]) =>
            /\ q = <<>>
            /\ \A w \in Workers : ~Busy(w)
            /\ AllExecuted]_vars

\* C2: under fair scheduling a thread inside waitUntilFinish is eventually
\* released, whatever the pool size and the number of tasks (none included).
C2_WaitEventuallyReturns ==
    \A u \in Waiters : (wpc[u] \notin NotWaiting) ~> (wpc[u] = "returned")

\* C3: every task is returned by Queue::pop at most once and run at most once;
\* no task is twice in the queue, held by two Workers, or both queued and held.
C3_AtMostOnce ==
    /\ \A t \in TaskIds : popCount[t] <= 1 /\ execCount[t] <= popCount[t]
    /\ \A i, j \in 1..Len(q) : i # j => Id(q[i]) # Id(q[j])
    /\ \A i \in 1..Len(q) : popCount[Id(q[i])] = 0
    /\ \A w \in Workers : \A i \in 1..Len(q) : Id(cur[w]) # Id(q[i])
    /\ \A w1, w2 \in Workers :
        w1 # w2 /\ cur[w1] # NoTask => Id(cur[w1]) # Id(cur[w2])

\* Two Workers each hold a task while a third task has been run already.
C3_Witness ==
    /\ \A w \in Workers : pc[w] = "exec"
    /\ \E t \in TaskIds : execCount[t] = 1

\* C4: under fair scheduling, and as long as the pool is not being destroyed,
\* every task pushed by addTask is eventually dequeued and run.
C4_NoTaskDropped ==
    (~AllExecuted) ~> (AllExecuted \/ dpc # "alive")

\* MaxTasks tasks were submitted and each was run exactly once.
C4_Witness ==
    /\ dpc = "alive"
    /\ Cardinality(Submitted) = MaxTasks
    /\ \A t \in Submitted : execCount[t] = 1

\* C5: FIFO per producer: when pop returns a task, every earlier task of the
\* same producer has been returned by pop before.
C5_FifoPerProducer ==
    [][\A w \in Workers :
        (PopReturns(w) /\ pc'[w] = "gotTask") =>
            \A n \in 1..(cur'[w].seq - 1) : popCount[<<cur'[w].prod, n>>] >= 1]_vars

\* A producer's second task has just been dequeued while a task of the other
\* producer is at the head of the queue.
C5_Witness ==
    \E w \in Workers :
        /\ pc[w] = "gotTask"
        /\ cur[w].seq = 2
        /\ q # <<>>
        /\ q[1].prod # cur[w].prod

\* C6: destruction of the pool completes, under fair scheduling, with every
\* Worker thread exited and every dequeued task run to its end, whether tasks
\* remain in the queue or Workers are blocked in pop.
C6_DestructionCompletes ==
    /\ (dpc # "alive") ~> (dpc = "destroyed")
    /\ [](dpc = "destroyed" =>
            /\ \A w \in Workers : pc[w] = "exited"
            /\ \A t \in TaskIds : popCount[t] >= 1 => Executed(t))

\* The pool is destroyed; one task was run, another was left in the queue.
C6_Witness ==
    /\ dpc = "destroyed"
    /\ \E t \in TaskIds : handle[t] = "broken"
    /\ \E t \in TaskIds : Executed(t)

\* C7 as stated: when pop's wait ends with the queue non-empty it removes and
\* returns the head; it returns empty only if cancellation was signaled and
\* the queue was empty, consuming nothing.
C7_PopAsStated ==
    [][\A w \in Workers :
        PopReturns(w) =>
            IF q # <<>>
              THEN cur'[w] = Head(q) /\ q' = Tail(q)
              ELSE stop[w] /\ cur'[w] = NoTask /\ q' = q]_vars

\* C7 as amended: pop blocks only while the queue is empty and no stop is
\* requested, and its wait ends only when the queue is non-empty or stop is
\* requested; when it then finds stop not requested it removes and returns the
\* head; when it finds stop requested it returns empty and consumes nothing,
\* whether the queue is empty or not.
C7_PopOnStopReturnsEmpty ==
    [][\A w \in Workers :
        /\ (pc[w] # "popWait" /\ pc'[w] = "popWait") => q = <<>> /\ ~stop[w]
        /\ (pc[w] # "popCheck" /\ pc'[w] = "popCheck") => q # <<>> \/ stop[w]
        /\ PopReturns(w) =>
            IF stop[w]
              THEN pc'[w] = "exitLoop" /\ cur'[w] = NoTask /\ q' = q
              ELSE /\ q # <<>>
                   /\ pc'[w] = "gotTask"
                   /\ cur'[w] = Head(q)
                   /\ q' = Tail(q)]_vars

\* pop has just returned empty to a Worker although two tasks are queued.
C7_Witness ==
    \E w \in Workers : pc[w] = "exitLoop" /\ Len(q) >= 2

\* C8: the stop request for every Worker precedes the destructor's wait for
\* any Worker thread to exit.
C8_StopAllBeforeAnyJoin ==
    dpc = "join" => \A w \in Workers : stop[w]

\* C9: a Worker moves only Idle->Busy, Busy->Idle and Idle->Stopped; it leaves
\* Busy only by finishing the task it holds, and it becomes Stopped only when
\* stop was requested and pop returned empty, holding no task.
C9_NoAbortOfInFlightTask ==
    [][\A w \in Workers :
        /\ <<WState(w), WState(w)'>> \in
            {<<"Idle", "Idle">>, <<"Busy", "Busy">>, <<"Stopped", "Stopped">>,
             <<"Idle", "Busy">>, <<"Busy", "Idle">>, <<"Idle", "Stopped">>}
        /\ (Busy(w) /\ ~Busy(w)') =>
            execCount'[Id(cur[w])] = execCount[Id(cur[w])] + 1
        /\ (~Stopped(w) /\ Stopped(w)') =>
            stop[w] /\ PopReturns(w) /\ cur'[w] = NoTask /\ q' = q]_vars

\* Stop has been requested of a Worker that is running a task.
C9_Witness ==
    \E w \in Workers : pc[w] = "exec" /\ stop[w]

\* C10: a task body that raises leaves its failure in the task's handle; the
\* Worker goes on to set done, to notify and to ask for the next task.
C10_FailureDoesNotEndWorker ==
    [][\A w \in Workers :
        /\ (pc[w] = "exec" /\ cur[w].body = "throw" /\ pc'[w] # "exec") =>
            handle'[Id(cur[w])] = "failure" /\ pc'[w] = "setDone"
        /\ (pc[w] = "setDone" /\ pc'[w] # "setDone") =>
            pc'[w] = "notify" /\ done'[w]
        /\ (pc[w] = "notify" /\ pc'[w] # "notify") => pc'[w] = "start"]_vars

\* One Worker has run a producer's first task, which raised, and then that
\* producer's second task, which returned; the other Workers ran nothing.
C10_Witness ==
    \E w \in Workers, p \in Producers :
        /\ handle[<<p, 1>>] = "failure"
        /\ handle[<<p, 2>>] = "value"
        /\ \A x \in Workers \ {w} :
            ~done[x] /\ pc[x] \in {"start", "popWait", "popWake", "popCheck"}

----------------------------------------------------------------------------
\* C11: get() on the future returned by addTask returns a value or the task's
\* failure only after the paired task has executed, exactly once, and what it
\* gives is what a direct call of the bound callable on the bound argument
\* gives; the shared state, once written, is never written again.
Ready(t) == handle[t] \in {"value", "failure"}

----------------------------------------------------------------------------
\* C12: every write of a Worker's done flag is made by a thread that holds
\* the pool's completion mutex, the one under which waitUntilFinish evaluates
\* its predicate, so no flag changes while a predicate is being evaluated.
C12_DoneWrittenUnderPoolMutex ==
    [][\A w \in Workers :
         done'[w] # done[w] => pmtx = WorkerThread(w)]_vars

----------------------------------------------------------------------------
\* C13: a Worker that holds no dequeued, unfinished task reports isDone() true;
\* in particular one that was constructed and has never dequeued a task.
C13_IdleWorkerReportsDone ==
    \A w \in Workers :
        ~done[w] => pc[w] \in {"gotTask", "exec", "setDone"}

----------------------------------------------------------------------------
\* C14: a Worker's thread reads its thread handle's stop token (line 118) and
\* calls into its ThreadPool (line 119) only once the Worker is fully
\* constructed, that is once its pool reference has been bound.
C14_ThreadRunsAfterConstruction ==
    [][\A w \in Workers :
         (pc[w] \in {"entry", "start"} /\ pc'[w] # pc[w]) =>
             cstate[w] = "bound"]_vars

----------------------------------------------------------------------------
\* C15: a Worker that holds a dequeued task or is executing it holds neither
\* Queue::mtx nor ThreadPool::mtx, so another Worker about to pop can take
\* Queue::mtx whenever no third thread holds it.
C15_NoLockAcrossExecution ==
    \A w \in Workers :
        pc[w] \in {"gotTask", "exec"} =>
            /\ qmtx # WorkerThread(w)
            /\ pmtx # WorkerThread(w)
            /\ \A v \in Workers \ {w} :
                 (/\ pc[v] \in {"start", "popWake"}
                  /\ \A x \in Workers \ {w} : qmtx # WorkerThread(x))
                    => ENABLED PopEnter(v)

C15_Witness ==
    \E w \in Workers : \E v \in Workers \ {w} :
        /\ pc[w] = "exec"
        /\ pc[v] \in {"start", "popWake"}
        /\ q # <<>>
        /\ ENABLED PopEnter(v)

----------------------------------------------------------------------------
\* C16: a Worker signals the completion condition variable each time it has
\* finished a task and once more when its loop has ended, and always in this
\* order: the task's outcome is written, then done is set to true, then the
\* notification is made; a Worker gets back to waiting for a task, or to its
\* end, only through that notification.
Leaves(w, at) == pc[w] = at /\ pc'[w] # at
Signalled == PoolWaiting # {} => \E u \in PoolWaiting : wpc'[u] = "woken"

C16_OutcomeThenFlagThenNotify ==
    [][\A w \in Workers :
        /\ Leaves(w, "exec") =>
             /\ pc'[w] = "setDone"
             /\ handle'[Id(cur[w])] \in {"value", "failure"}
             /\ ~done'[w]
             /\ wpc' = wpc
        /\ Leaves(w, "setDone") =>
             pc'[w] = "notify" /\ done'[w] /\ wpc' = wpc
        /\ Leaves(w, "notify") =>
             pc'[w] = "start" /\ done[w] /\ Signalled
        /\ Leaves(w, "exitLoop") =>
             pc'[w] = "exitNotify" /\ done'[w] /\ wpc' = wpc
        /\ Leaves(w, "exitNotify") =>
             pc'[w] = "exited" /\ done[w] /\ Signalled
        /\ (pc'[w] = "start" /\ pc[w] # "start") => pc[w] = "notify"
        /\ (pc'[w] = "exited" /\ pc[w] # "exited") => pc[w] = "exitNotify"]_vars

C16_Witness ==
    \E w \in Workers :
        /\ pc[w] = "notify"
        /\ done[w]
        /\ PoolWaiting # {}
        /\ \E t \in TaskIds : handle[t] = "failure"

----------------------------------------------------------------------------
\* C17: the two mutexes never deadlock.  The thread that holds Queue::mtx
\* needs no other mutex to go on and release it; the only thread that holds
\* ThreadPool::mtx between steps is a waiter evaluating its predicate, which
\* needs at most Queue::mtx (the one nested acquisition, pool mutex first);
\* and no thread takes ThreadPool::mtx while it holds Queue::mtx.
TakesPoolMutex(w) == Leaves(w, "notify") \/ Leaves(w, "exitNotify")

C17_NoLockOrderCycle ==
    /\ [](\A w \in Workers :
            qmtx = WorkerThread(w) => ENABLED PopCheck(w))
    /\ [](qmtx = NoOne \/ \E w \in Workers : qmtx = WorkerThread(w))
    /\ [](pmtx = NoOne \/ \E u \in Waiters : pmtx = WaiterThread(u))
    /\ [](\A u \in Waiters :
            pmtx = WaiterThread(u) =>
              /\ wpc[u] \in {"evalEmpty", "evalDone"}
              /\ wpc[u] = "evalDone" => ENABLED EvalDone(u)
              /\ (wpc[u] = "evalEmpty" /\ qmtx = NoOne) => ENABLED EvalEmpty(u))
    /\ [][\A w \in Workers :
            TakesPoolMutex(w) => qmtx # WorkerThread(w)]_vars

C17_Witness ==
    \E w \in Workers : \E u \in Waiters :
        /\ qmtx = WorkerThread(w)
        /\ pmtx = WaiterThread(u)
        /\ wpc[u] = "evalEmpty"

----------------------------------------------------------------------------
\* C18: with several threads inside waitUntilFinish, every one of them that is
\* blocked when the queue is empty and every Worker reports done eventually
\* returns: none stays blocked because the notification woke another waiter.
C18_EveryWaiterReturns ==
    \A u \in Waiters :
        (/\ wpc[u] = "blocked"
         /\ q = <<>>
         /\ \A w \in Workers : done[w]) ~> (wpc[u] = "returned")

----------------------------------------------------------------------------
\* C19: once the pool has been destroyed, the future of every task submitted
\* before is ready: it holds the task's outcome if the task ran, and a broken
\* promise if the task was still queued and never ran; so get() on it returns
\* or raises at once instead of blocking.
C19_HandlesReadyAfterDestruction ==
    dpc = "destroyed" =>
        \A t \in Submitted :
            /\ handle[t] \in {"value", "failure", "broken"}
            /\ handle[t] = "broken" <=> execCount[t] = 0
            /\ got[t] = NotGot => ENABLED Get(t)
            /\ got[t] = BrokenPromise => execCount[t] = 0

C19_Witness ==
    /\ dpc = "destroyed"
    /\ \E t \in Submitted : got[t] = BrokenPromise
    /\ \E t \in Submitted : got[t].kind = "value"
    /\ \E t \in Submitted : got[t] = NotGot /\ handle[t] = "broken"

----------------------------------------------------------------------------
\* C20: Queue::pop never reads or removes the front of an empty deque: when
\* its wait is over and stop has not been requested, the queue is non-empty,
\* also when another Worker has been popping at the same time.
C20_PopNeverReadsEmpty ==
    \A w \in Workers :
        /\ pc[w] # "ub"
        /\ (pc[w] = "popCheck" /\ ~stop[w]) => q # <<>>

C20_Witness ==
    \E w \in Workers : \E v \in Workers \ {w} :
        /\ pc[w] = "popCheck"
        /\ ~stop[w]
        /\ Len(q) = 1
        /\ pc[v] = "popWake"
        /\ popCount[Id(Front(q))] = 0
        /\ \E t \in TaskIds : popCount[t] = 1

============================================================================
